---- MODULE Spec2Model ----
(***************************************************************************)
(* Model of odoo_partner_scraper.py: the industry catalog and its column   *)
(* identifiers, the list-row parser, the profile extractor, the scrape     *)
(* loop with its profile cache, and the final table clean-up.              *)
(*                                                                         *)
(* Representation of text.  A character string that the code inspects      *)
(* character by character (make_safe_ri_column) is a sequence of           *)
(* one-character strings.  A text that the code inspects with word-level   *)
(* regular expressions (parse_partner_text, fetch_profile_extras) is the   *)
(* sequence of its whitespace-separated lexemes, i.e. the result of        *)
(* text.split(); a lexeme is a tuple                                       *)
(*     <<d, pre, suf, w>>                                                  *)
(* that is either a word (w # "", d = <<>>) or a number (d a non-empty     *)
(* sequence of digits, pre/suf the punctuation glued to it, e.g. "~50+"    *)
(* or "85%"; pre = "v" gives the version lexeme "v19").  A catalog label   *)
(* is one lexeme even when it contains spaces.                             *)
(***************************************************************************)
EXTENDS Integers, Sequences, FiniteSets, TLC

VARIABLES
    sl,             \* catalog run: labels, their column ids, the re-slugified id
    pp,             \* parse_partner_text run: input text and returned value
    px,             \* fetch_profile_extras run: response and returned extras
    pc,             \* position of scrape_partners / clean_and_export
    page_num,       \* loop variable of scrape_partners
    page_outcome,   \* page number -> outcome of its listing fetch
    all_rows,       \* rows collected so far
    profile_cache,  \* profile URL -> extras
    profile_calls,  \* profile URL -> number of fetch_profile_extras invocations
    profile_resp,   \* profile URL -> <<exception?, status>> of its fetch
    anchors_seen,   \* number of anchors processed in the run
    df              \* table returned by clean_and_export (<<>> before it ran)

vars == <<sl, pp, px, pc, page_num, page_outcome, all_rows, profile_cache,
          profile_calls, profile_resp, anchors_seen, df>>

scrape_vars == <<pc, page_num, page_outcome, all_rows, profile_cache,
                 profile_calls, profile_resp, anchors_seen, df>>

-----------------------------------------------------------------------------
(* Generic helpers *)

Min(S) == CHOOSE x \in S : \A y \in S : x <= y

Max(S) == CHOOSE x \in S : \A y \in S : x >= y

Range(s) == {s[i] : i \in 1..Len(s)}

\* dict[k] = v
Put(f, k, v) == [x \in (DOMAIN f) \cup {k} |-> IF x = k THEN v ELSE f[x]]

\* dict.update(g)
Update(f, g) == [x \in (DOMAIN f) \cup (DOMAIN g) |-> IF x \in DOMAIN g THEN g[x] ELSE f[x]]

\* int() of a string of decimal digits
RECURSIVE ToInt(_)
ToInt(d) == IF d = <<>> THEN 0 ELSE 10 * ToInt(SubSeq(d, 1, Len(d) - 1)) + d[Len(d)]

-----------------------------------------------------------------------------
(* Industry catalog and column identifiers *)

ALLOWED_INDUSTRIES ==
    << "Agriculture",
       "Construction & Renovation",
       "ECO liable to deduct TCS u/s 52",
       "ECO liable to pay GST u/s 9(5)",
       "Education",
       "Entertainment / Media",
       "Finance / Legal / Insurance",
       "Food / Hospitality / Tourism / Beverage",
       "Government",
       "HR / Administrative / Consulting",
       "Health / Social Welfare / Pharmaceutical",
       "Households",
       "IT / Communication / Marketing",
       "Manufacturing / Maintenance",
       "Mining & Quarrying",
       "NGO",
       "Other Services",
       "Real Estate",
       "Science & Technology",
       "Transportation/Logistics",
       "Utilities / Energy / Water supply",
       "Wholesale / Retail" >>

Chars(label) ==
    CASE label = "Agriculture" ->
           <<"A", "g", "r", "i", "c", "u", "l", "t", "u", "r", "e">>
      [] label = "Construction & Renovation" ->
           <<"C", "o", "n", "s", "t", "r", "u", "c", "t", "i", "o", "n", " ", "&", " ", "R", "e", "n", "o", "v", "a", "t", "i", "o", "n">>
      [] label = "ECO liable to deduct TCS u/s 52" ->
           <<"E", "C", "O", " ", "l", "i", "a", "b", "l", "e", " ", "t", "o", " ", "d", "e", "d", "u", "c", "t", " ", "T", "C", "S", " ", "u", "/", "s", " ", "5", "2">>
      [] label = "ECO liable to pay GST u/s 9(5)" ->
           <<"E", "C", "O", " ", "l", "i", "a", "b", "l", "e", " ", "t", "o", " ", "p", "a", "y", " ", "G", "S", "T", " ", "u", "/", "s", " ", "9", "(", "5", ")">>
      [] label = "Education" ->
           <<"E", "d", "u", "c", "a", "t", "i", "o", "n">>
      [] label = "Entertainment / Media" ->
           <<"E", "n", "t", "e", "r", "t", "a", "i", "n", "m", "e", "n", "t", " ", "/", " ", "M", "e", "d", "i", "a">>
      [] label = "Finance / Legal / Insurance" ->
           <<"F", "i", "n", "a", "n", "c", "e", " ", "/", " ", "L", "e", "g", "a", "l", " ", "/", " ", "I", "n", "s", "u", "r", "a", "n", "c", "e">>
      [] label = "Food / Hospitality / Tourism / Beverage" ->
           <<"F", "o", "o", "d", " ", "/", " ", "H", "o", "s", "p", "i", "t", "a", "l", "i", "t", "y", " ", "/", " ", "T", "o", "u", "r", "i", "s", "m", " ", "/", " ", "B", "e", "v", "e", "r", "a", "g", "e">>
      [] label = "Government" ->
           <<"G", "o", "v", "e", "r", "n", "m", "e", "n", "t">>
      [] label = "HR / Administrative / Consulting" ->
           <<"H", "R", " ", "/", " ", "A", "d", "m", "i", "n", "i", "s", "t", "r", "a", "t", "i", "v", "e", " ", "/", " ", "C", "o", "n", "s", "u", "l", "t", "i", "n", "g">>
      [] label = "Health / Social Welfare / Pharmaceutical" ->
           <<"H", "e", "a", "l", "t", "h", " ", "/", " ", "S", "o", "c", "i", "a", "l", " ", "W", "e", "l", "f", "a", "r", "e", " ", "/", " ", "P", "h", "a", "r", "m", "a", "c", "e", "u", "t", "i", "c", "a", "l">>
      [] label = "Households" ->
           <<"H", "o", "u", "s", "e", "h", "o", "l", "d", "s">>
      [] label = "IT / Communication / Marketing" ->
           <<"I", "T", " ", "/", " ", "C", "o", "m", "m", "u", "n", "i", "c", "a", "t", "i", "o", "n", " ", "/", " ", "M", "a", "r", "k", "e", "t", "i", "n", "g">>
      [] label = "Manufacturing / Maintenance" ->
           <<"M", "a", "n", "u", "f", "a", "c", "t", "u", "r", "i", "n", "g", " ", "/", " ", "M", "a", "i", "n", "t", "e", "n", "a", "n", "c", "e">>
      [] label = "Mining & Quarrying" ->
           <<"M", "i", "n", "i", "n", "g", " ", "&", " ", "Q", "u", "a", "r", "r", "y", "i", "n", "g">>
      [] label = "NGO" ->
           <<"N", "G", "O">>
      [] label = "Other Services" ->
           <<"O", "t", "h", "e", "r", " ", "S", "e", "r", "v", "i", "c", "e", "s">>
      [] label = "Real Estate" ->
           <<"R", "e", "a", "l", " ", "E", "s", "t", "a", "t", "e">>
      [] label = "Science & Technology" ->
           <<"S", "c", "i", "e", "n", "c", "e", " ", "&", " ", "T", "e", "c", "h", "n", "o", "l", "o", "g", "y">>
      [] label = "Transportation/Logistics" ->
           <<"T", "r", "a", "n", "s", "p", "o", "r", "t", "a", "t", "i", "o", "n", "/", "L", "o", "g", "i", "s", "t", "i", "c", "s">>
      [] label = "Utilities / Energy / Water supply" ->
           <<"U", "t", "i", "l", "i", "t", "i", "e", "s", " ", "/", " ", "E", "n", "e", "r", "g", "y", " ", "/", " ", "W", "a", "t", "e", "r", " ", "s", "u", "p", "p", "l", "y">>
      [] label = "Wholesale / Retail" ->
           <<"W", "h", "o", "l", "e", "s", "a", "l", "e", " ", "/", " ", "R", "e", "t", "a", "i", "l">>


AlnumChars ==
    {"A", "B", "C", "D", "E", "F", "G", "H", "I", "J", "K", "L", "M", "N", "O", "P", "Q", "R", "S", "T", "U", "V", "W", "X", "Y", "Z",
     "a", "b", "c", "d", "e", "f", "g", "h", "i", "j", "k", "l", "m", "n", "o", "p", "q", "r", "s", "t", "u", "v", "w", "x", "y", "z",
     "0", "1", "2", "3", "4", "5", "6", "7", "8", "9"}

SpaceChars == {" ", "\t", "\n"}

\* s.strip(chars)
StripChars(s, cs) ==
    LET keep == {i \in 1..Len(s) : s[i] \notin cs}
    IN  IF keep = {} THEN <<>> ELSE SubSeq(s, Min(keep), Max(keep))

\* re.sub(r"[cls]+", rep, s), cls given as the set of positions it matches
SubRuns(s, hit, rep) ==
    LET first == {i \in 1..Len(s) : i \notin hit \/ i = 1 \/ (i - 1) \notin hit}
        idx   == SelectSeq([i \in 1..Len(s) |-> i], LAMBDA i : i \in first)
    IN  [k \in 1..Len(idx) |-> IF idx[k] \in hit THEN rep ELSE s[idx[k]]]

RiPrefix == <<"R", "I", "_">>

make_safe_ri_column_no_collapse(label) ==
    LET lab1 == StripChars(label, SpaceChars)
        lab3 == [i \in 1..Len(lab1) |-> IF lab1[i] \in AlnumChars THEN lab1[i] ELSE "_"]
    IN  RiPrefix \o SelectSeq(lab3, LAMBDA c : c # "_")

make_safe_ri_column(label) ==
    LET lab1 == StripChars(label, SpaceChars)
        lab2 == SubRuns(lab1, {i \in 1..Len(lab1) : lab1[i] \in SpaceChars}, " ")
        lab3 == SubRuns(lab2, {i \in 1..Len(lab2) : lab2[i] \notin AlnumChars}, "_")
        lab4 == StripChars(SubRuns(lab3, {i \in 1..Len(lab3) : lab3[i] = "_"}, "_"), {"_"})
    IN  RiPrefix \o lab4

ALLOWED_LABEL_TO_RI_COL == [lab \in Range(ALLOWED_INDUSTRIES) |-> make_safe_ri_column(Chars(lab))]

ALLOWED_RI_COLS == [i \in 1..Len(ALLOWED_INDUSTRIES) |-> ALLOWED_LABEL_TO_RI_COL[ALLOWED_INDUSTRIES[i]]]

init_ri_zero_dict == [col \in Range(ALLOWED_RI_COLS) |-> 0]

-----------------------------------------------------------------------------
(* Column names of a row (dict keys), as character strings *)

\* "Partner Name"
COL_PARTNER_NAME ==
    <<"P", "a", "r", "t", "n", "e", "r", " ", "N", "a", "m", "e">>

\* "Tier"
COL_TIER ==
    <<"T", "i", "e", "r">>

\* "Location"
COL_LOCATION ==
    <<"L", "o", "c", "a", "t", "i", "o", "n">>

\* "References"
COL_REFERENCES ==
    <<"R", "e", "f", "e", "r", "e", "n", "c", "e", "s">>

\* "Certified Experts"
COL_CERTIFIED_EXPERTS ==
    <<"C", "e", "r", "t", "i", "f", "i", "e", "d", " ", "E", "x", "p", "e", "r", "t", "s">>

\* "Profile URL"
COL_PROFILE_URL ==
    <<"P", "r", "o", "f", "i", "l", "e", " ", "U", "R", "L">>

\* "Certified Versions"
COL_CERTIFIED_VERSIONS ==
    <<"C", "e", "r", "t", "i", "f", "i", "e", "d", " ", "V", "e", "r", "s", "i", "o", "n", "s">>

\* "References Total"
COL_REFERENCES_TOTAL ==
    <<"R", "e", "f", "e", "r", "e", "n", "c", "e", "s", " ", "T", "o", "t", "a", "l">>

\* "Customer Retention %"
COL_CUSTOMER_RETENTION ==
    <<"C", "u", "s", "t", "o", "m", "e", "r", " ", "R", "e", "t", "e", "n", "t", "i", "o", "n", " ", "%">>

\* "Largest Reference Users"
COL_LARGEST_REFERENCE_USERS ==
    <<"L", "a", "r", "g", "e", "s", "t", " ", "R", "e", "f", "e", "r", "e", "n", "c", "e", " ", "U", "s", "e", "r", "s">>

\* "Average Reference Users"
COL_AVERAGE_REFERENCE_USERS ==
    <<"A", "v", "e", "r", "a", "g", "e", " ", "R", "e", "f", "e", "r", "e", "n", "c", "e", " ", "U", "s", "e", "r", "s">>

\* "Reference Industries"
COL_REFERENCE_INDUSTRIES ==
    <<"R", "e", "f", "e", "r", "e", "n", "c", "e", " ", "I", "n", "d", "u", "s", "t", "r", "i", "e", "s">>

-----------------------------------------------------------------------------
(* Lexemes *)

W(w) == <<<<>>, "", "", w>>

N(d) == <<d, "", "", "">>

NX(pre, d, suf) == <<d, pre, suf, "">>

Digits(t) == t[1]

Pre(t) == t[2]

Suf(t) == t[3]

Word(t) == t[4]

\* str.lower() on the words of the vocabulary that contain an upper-case letter
LowerTable ==
    [w \in {"Find", "Best", "Match", "References", "Certified", "Customer",
            "Retention", "Sizes", "Largest:", "Average:", "Users", "About",
            "Gold", "Silver", "Ready", "Industries", "Experts", "Expert",
            "Average", "Project", "V"} |->
        CASE w = "Find" -> "find"             [] w = "Best" -> "best"
          [] w = "Match" -> "match"           [] w = "References" -> "references"
          [] w = "Certified" -> "certified"   [] w = "Customer" -> "customer"
          [] w = "Retention" -> "retention"   [] w = "Sizes" -> "sizes"
          [] w = "Largest:" -> "largest:"     [] w = "Average:" -> "average:"
          [] w = "Users" -> "users"           [] w = "About" -> "about"
          [] w = "Gold" -> "gold"             [] w = "Silver" -> "silver"
          [] w = "Ready" -> "ready"           [] w = "Industries" -> "industries"
          [] w = "Experts" -> "experts"       [] w = "Expert" -> "expert"
          [] w = "Average" -> "average"       [] w = "Project" -> "project"
          [] w = "V" -> "v"]

Lower(w) == IF w \in DOMAIN LowerTable THEN LowerTable[w] ELSE w

\* the lexeme is a word of S (case-sensitive match of \bword\b)
IsWord(t, S) == Digits(t) = <<>> /\ Word(t) \in S

\* the lexeme is a word of S up to case (re.IGNORECASE)
IsWordI(t, S) == Digits(t) = <<>> /\ Lower(Word(t)) \in S

\* \b(\d+) can start at the lexeme's digits: nothing word-like is glued before
DigitsAtBoundary(t) == Digits(t) # <<>> /\ Lower(Pre(t)) # "v"

\* \b(\d+)\s+ : digits at a word boundary, whitespace right after them
NumberThenSpace(t) == DigitsAtBoundary(t) /\ Suf(t) = ""

-----------------------------------------------------------------------------
(* List-row parser *)

TIERS == {"Gold", "Silver", "Ready"}

NA == <<W("N/A")>>

ZERO == <<0>>

\* TIER_RE.search(text): index of the first tier word, 0 if none
TIER_RE_search(text) ==
    LET hits == {i \in 1..Len(text) : IsWord(text[i], TIERS)}
    IN  IF hits = {} THEN 0 ELSE Min(hits)

\* REFS_RE.search(text): group(1) of the first match, <<>> if none
REFS_RE_search(text) ==
    LET hits == {i \in 1..(Len(text) - 1) :
                    NumberThenSpace(text[i]) /\ IsWord(text[i + 1], {"References", "Reference"})}
    IN  IF hits = {} THEN <<>> ELSE Digits(text[Min(hits)])

\* EXPERTS_RE.search(text): group(1) of the first match, <<>> if none
EXPERTS_RE_search(text) ==
    LET hits == {i \in 1..(Len(text) - 2) :
                    /\ NumberThenSpace(text[i])
                    /\ IsWord(text[i + 1], {"Certified"})
                    /\ IsWord(text[i + 2], {"Experts", "Expert"})}
    IN  IF hits = {} THEN <<>> ELSE Digits(text[Min(hits)])

\* the lexeme ends with "%" (so "%\s+" matches at its end)
EndsPercent(t) == IsWord(t, {"%"}) \/ (Digits(t) # <<>> /\ Suf(t) = "%")

AverageProjectAt(text, j) ==
    j + 1 <= Len(text) /\ IsWord(text[j], {"Average"}) /\ IsWord(text[j + 1], {"Project:"})

\* LOC_RE.search(text): <<group(1)>> of the leftmost, shortest match, <<>> if none
LOC_RE_search(text) ==
    LET ends(i) == {j \in (i + 2)..Len(text) : AverageProjectAt(text, j)}
        hits    == {i \in 1..Len(text) : EndsPercent(text[i]) /\ ends(i) # {}}
    IN  IF hits = {} THEN <<>>
        ELSE LET i == Min(hits) IN <<SubSeq(text, i + 1, Min(ends(i)) - 1)>>

\* s.strip(" ,") on lexemes: leading and trailing "," lexemes go
StripCommas(s) ==
    LET keep == {i \in 1..Len(s) : ~IsWord(s[i], {","})}
    IN  IF keep = {} THEN <<>> ELSE SubSeq(s, Min(keep), Max(keep))

LowerText(s) == [i \in 1..Len(s) |-> <<Digits(s[i]), Lower(Pre(s[i])), Suf(s[i]), Lower(Word(s[i]))>>]

FIND_BEST_MATCH == <<W("find"), W("best"), W("match")>>

Row(name, tier, location, refs, experts) ==
    (COL_PARTNER_NAME :> name) @@ (COL_TIER :> tier) @@ (COL_LOCATION :> location)
    @@ (COL_REFERENCES :> refs) @@ (COL_CERTIFIED_EXPERTS :> experts)

\* line 133
parse_reject(location, refs, experts) ==
    location = NA /\ refs = ZERO /\ experts = ZERO

\* <<row>>, or <<>> for None
parse_partner_text(text) ==
    LET ts == TIER_RE_search(text)
    IN  IF ts = 0 THEN <<>>
        ELSE
        LET tier     == Word(text[ts])
            name     == SubSeq(text, 1, ts - 1)
            m_loc    == LOC_RE_search(text)
            location == IF m_loc # <<>> THEN StripCommas(m_loc[1]) ELSE NA
            m_refs   == REFS_RE_search(text)
            refs     == IF m_refs # <<>> THEN m_refs ELSE ZERO
            m_exp    == EXPERTS_RE_search(text)
            experts  == IF m_exp # <<>> THEN m_exp ELSE ZERO
        IN  IF name = <<>> \/ LowerText(name) = FIND_BEST_MATCH THEN <<>>
            ELSE IF parse_reject(location, refs, experts) THEN <<>>
            ELSE <<Row(name, tier, location, refs, experts)>>

-----------------------------------------------------------------------------
(* Profile extractor *)

\* the increasing sequence of the elements of a set of indices
Sorted(S) == SelectSeq([i \in 1..(IF S = {} THEN 0 ELSE Max(S)) |-> i], LAMBDA i : i \in S)

\* lines 155-163; an absent value (None) is <<>>, a present one <<n>>;
\* an empty string cell is <<>>
DefaultExtras ==
    Update((COL_CERTIFIED_VERSIONS :> <<>>) @@ (COL_REFERENCES_TOTAL :> <<>>)
           @@ (COL_CUSTOMER_RETENTION :> <<>>) @@ (COL_LARGEST_REFERENCE_USERS :> <<>>)
           @@ (COL_AVERAGE_REFERENCE_USERS :> <<>>) @@ (COL_REFERENCE_INDUSTRIES :> <<>>),
           init_ri_zero_dict)

\* re.findall(r"\b(\d+)\s+Certified\s+v(\d+)\b", norm, re.IGNORECASE)
cert_pairs(norm) ==
    LET hits == {i \in 1..(Len(norm) - 2) :
                    /\ NumberThenSpace(norm[i])
                    /\ IsWordI(norm[i + 1], {"certified"})
                    /\ Digits(norm[i + 2]) # <<>> /\ Lower(Pre(norm[i + 2])) = "v"}
        idx  == Sorted(hits)
    IN  [k \in 1..Len(idx) |-> <<Digits(norm[idx[k]]), Digits(norm[idx[k] + 2])>>]

\* lines 184-191: counts summed per version, versions descending (stable)
CertifiedVersions(norm) ==
    LET pairs  == cert_pairs(norm)
        vers   == {pairs[k][2] : k \in 1..Len(pairs)}
        first(v) == Min({k \in 1..Len(pairs) : pairs[k][2] = v})
        RECURSIVE Sum(_)
        Sum(K) == IF K = {} THEN 0
                  ELSE LET k == CHOOSE x \in K : TRUE
                       IN  ToInt(pairs[k][1]) + Sum(K \ {k})
        agg(v)  == Sum({k \in 1..Len(pairs) : pairs[k][2] = v})
        rank(v) == 1 + Cardinality({u \in vers :
                        \/ ToInt(u) > ToInt(v)
                        \/ (ToInt(u) = ToInt(v) /\ first(u) < first(v))})
    IN  [r \in 1..Cardinality(vers) |->
            LET v == CHOOSE u \in vers : rank(u) = r IN <<v, agg(v)>>]

\* re.search(r"\bReferences\s*-\s*(\d+)\b", norm, re.IGNORECASE):
\* index of the lexeme holding group(1), 0 if no match
m_total(norm) ==
    LET hits == {i \in 1..(Len(norm) - 2) :
                    /\ IsWordI(norm[i], {"references"})
                    /\ IsWord(norm[i + 1], {"-"})
                    /\ Digits(norm[i + 2]) # <<>> /\ Pre(norm[i + 2]) = ""}
    IN  IF hits = {} THEN 0 ELSE Min(hits) + 2

PairAt(norm, i, a, B) ==
    i + 1 <= Len(norm) /\ IsWordI(norm[i], {a}) /\ IsWordI(norm[i + 1], B)

\* re.search(r"\bCustomer\s+Retention\b.*?\b(\d{1,3})\s*%?\b", norm, re.IGNORECASE)
m_ret(norm) ==
    LET starts == {i \in 1..Len(norm) : PairAt(norm, i, "customer", {"retention"})}
        nums   == IF starts = {} THEN {}
                  ELSE {k \in (Min(starts) + 2)..Len(norm) :
                            DigitsAtBoundary(norm[k]) /\ Len(Digits(norm[k])) <= 3}
    IN  IF nums = {} THEN <<>> ELSE <<ToInt(Digits(norm[Min(nums)]))>>

\* re.search(r"\bReferences\s+Sizes\b.*?\b<head>\s*~?\s*(\d+)\s*\+?\s*users?\b", ...)
m_size(norm, head) ==
    LET starts == {i \in 1..Len(norm) : PairAt(norm, i, "references", {"sizes"})}
        hits   == IF starts = {} THEN {}
                  ELSE {k \in (Min(starts) + 2)..(Len(norm) - 2) :
                            /\ IsWordI(norm[k], {head})
                            /\ Digits(norm[k + 1]) # <<>>
                            /\ Pre(norm[k + 1]) \in {"", "~"}
                            /\ Suf(norm[k + 1]) \in {"", "+"}
                            /\ IsWordI(norm[k + 2], {"users", "user"})}
    IN  IF hits = {} THEN <<>> ELSE <<ToInt(Digits(norm[Min(hits) + 1]))>>

\* stop_re.search(tail): index of the first stop marker, 0 if none
m_stop(tail) ==
    LET hits == {i \in 1..Len(tail) :
                    \/ PairAt(tail, i, "references", {"sizes"})
                    \/ PairAt(tail, i, "customer", {"retention"})
                    \/ PairAt(tail, i, "certified", {"expert", "experts"})
                    \/ PairAt(tail, i, "average", {"project", "project:"})
                    \/ IsWordI(tail[i], {"industries", "about", "gold", "silver", "ready"})}
    IN  IF hits = {} THEN 0 ELSE Min(hits)

\* the \b that ends patt needs a word character at the end of the label
LabelEndsInWord(lab) == Chars(lab)[Len(Chars(lab))] \in AlnumChars

MaxCountDigits == 6

\* patt.findall(block), patt = \b(\d{1,6})\s+(<one of the 22 labels>)\b
found_label_first(block) ==
    LET hits == {i \in 1..(Len(block) - 1) :
                    /\ IsWord(block[i], Range(ALLOWED_INDUSTRIES))
                    /\ NumberThenSpace(block[i + 1])
                    /\ Len(Digits(block[i + 1])) <= MaxCountDigits}
        idx  == Sorted(hits)
    IN  [k \in 1..Len(idx) |-> <<Digits(block[idx[k] + 1]), Word(block[idx[k]])>>]

found(block) ==
    LET hits == {i \in 1..(Len(block) - 1) :
                    /\ NumberThenSpace(block[i])
                    /\ Len(Digits(block[i])) <= MaxCountDigits
                    /\ IsWord(block[i + 1], Range(ALLOWED_INDUSTRIES))
                    /\ LabelEndsInWord(Word(block[i + 1]))}
        idx  == Sorted(hits)
    IN  [k \in 1..Len(idx) |-> <<Digits(block[idx[k]]), Word(block[idx[k] + 1])>>]

\* lines 245-253: labels in first-seen order
order(fnd) ==
    LET firsts == {k \in 1..Len(fnd) : \A j \in 1..(k - 1) : fnd[j][2] # fnd[k][2]}
        idx    == Sorted(firsts)
    IN  [k \in 1..Len(idx) |-> fnd[idx[k]][2]]

\* lines 245-253: the largest count seen for a label
dedup(fnd, lab) == Max({ToInt(fnd[k][1]) : k \in {j \in 1..Len(fnd) : fnd[j][2] = lab}})

\* lines 259-262
RECURSIVE set_ri_columns(_, _, _)
set_ri_columns(extras, fnd, labs) ==
    IF labs = <<>> THEN extras
    ELSE LET lab == labs[1]
             nxt == IF lab \in DOMAIN ALLOWED_LABEL_TO_RI_COL
                    THEN Put(extras, ALLOWED_LABEL_TO_RI_COL[lab], dedup(fnd, lab))
                    ELSE extras
         IN  set_ri_columns(nxt, fnd, Tail(labs))

\* lines 255-262: the text cell, then the fixed RI columns
set_industries(extras, fnd, labs) ==
    IF fnd = <<>> THEN extras
    ELSE set_ri_columns(
             Put(extras, COL_REFERENCE_INDUSTRIES,
                 [k \in 1..Len(labs) |-> <<labs[k], dedup(fnd, labs[k])>>]),
             fnd, labs)

\* lines 236-237
block_of(tail, stop) == IF stop # 0 THEN SubSeq(tail, 1, stop - 1) ELSE tail

found_in(extras, fnd) == set_industries(extras, fnd, order(fnd))

\* lines 222-262: the bounded industries block
industries(extras, tail) == found_in(extras, found(block_of(tail, m_stop(tail))))

no_anchor_ignored(t) == FALSE

\* line 219: if not m_total
no_anchor(t) == t = 0

\* lines 182-216: the fields found anywhere in the text; t locates m_total
fields(norm, t) ==
    (COL_CERTIFIED_VERSIONS :> CertifiedVersions(norm))
    @@ (COL_REFERENCES_TOTAL :> IF t # 0 THEN <<ToInt(Digits(norm[t]))>> ELSE <<>>)
    @@ (COL_CUSTOMER_RETENTION :> m_ret(norm))
    @@ (COL_LARGEST_REFERENCE_USERS :> m_size(norm, "largest:"))
    @@ (COL_AVERAGE_REFERENCE_USERS :> m_size(norm, "average:"))

\* lines 218-222: industries only in the text after m_total
after_total(extras, norm, t) ==
    IF no_anchor(t) THEN extras ELSE industries(extras, SubSeq(norm, t + 1, Len(norm)))

\* lines 182-264: extraction from the normalised page text
extract(norm) == after_total(Update(DefaultExtras, fields(norm, m_total(norm))), norm, m_total(norm))

\* a response of session.get: an exception, or a status with the page text
Response(exc, status, text) == <<exc, status, text>>

exc_of(resp) == resp[1]

status_code(resp) == resp[2]

text_of(resp) == resp[3]

\* what fetch_profile_extras hands back: the extras, or an exception raised
Returned(extras) == <<extras, FALSE>>

RaisedWith(extras) == <<extras, TRUE>>

extras_of(got) == got[1]

raised_of(got) == got[2]

HTTP_OK == 200

\* variant: the request is made outside the try block
fetch_profile_extras_unguarded(profile_url, resp) ==
    IF profile_url = "" THEN Returned(DefaultExtras)
    ELSE IF exc_of(resp) THEN RaisedWith(DefaultExtras)
    ELSE IF status_code(resp) # HTTP_OK THEN Returned(DefaultExtras)
    ELSE Returned(extract(text_of(resp)))

\* lines 148-264; raised = an exception leaves the function
fetch_profile_extras(profile_url, resp) ==
    IF profile_url = "" THEN Returned(DefaultExtras)
    ELSE IF exc_of(resp) THEN Returned(DefaultExtras)
    ELSE IF status_code(resp) # HTTP_OK THEN Returned(DefaultExtras)
    ELSE Returned(extract(text_of(resp)))

-----------------------------------------------------------------------------
(* The site: anchors of listing pages and profile pages *)

Acme == <<W("Acme")>>

LocSegment == <<N(<<4, 0>>), W("%"), W("Springfield"), W("Average"), W("Project:")>>

Anchor(text, href) == [href |-> href, text |-> text]

\* the <a> elements a listing page can hold
Anchors ==
    { Anchor(Acme \o <<W("Gold"), N(<<5>>), W("References")>> \o LocSegment, "/partners/acme-1"),
      Anchor(Acme \o <<W("Gold")>> \o LocSegment, "/partners/acme-2"),
      Anchor(Acme \o <<W("Gold"), N(<<7>>), W("References")>> \o LocSegment, "/partners/acme-3"),
      Anchor(<<W("Beta"), W("Silver"), N(<<2>>), W("Certified"), W("Experts")>>, "https://beta.example"),
      Anchor(<<W("Find"), W("Best"), W("Match"), W("Gold"), N(<<3>>), W("References")>>, "/partners"),
      Anchor(<<W("Contact")>>, "/contact") }

\* href.startswith("/")
StartsWithSlash(href) == href \in {"/partners/acme-1", "/partners/acme-2", "/partners/acme-3",
                                   "/partners", "/contact"}

\* urljoin(BASE, href) for a rooted href
urljoin(href) ==
    CASE href = "/partners/acme-1" -> "https://www.odoo.com/partners/acme-1"
      [] href = "/partners/acme-2" -> "https://www.odoo.com/partners/acme-2"
      [] href = "/partners/acme-3" -> "https://www.odoo.com/partners/acme-3"
      [] href = "/partners" -> "https://www.odoo.com/partners"
      [] href = "/contact" -> "https://www.odoo.com/contact"

SizesSegment ==
    <<W("Customer"), W("Retention"), NX("", <<8, 5>>, "%"), W("References"), W("Sizes"),
      W("Largest:"), NX("~", <<5, 0>>, "+"), W("users"),
      W("Average:"), NX("~", <<1, 0>>, "+"), W("users")>>

\* the visible text of the profile page behind a URL
ProfilePage(url) ==
    CASE url = "https://www.odoo.com/partners/acme-1" ->
            <<N(<<4>>), W("Certified"), NX("v", <<1, 9>>, ""),
              W("References"), W("-"), N(<<3>>), N(<<2>>), W("Agriculture"),
              N(<<1>>), W("Real Estate")>> \o SizesSegment
      [] url = "https://www.odoo.com/partners/acme-2" ->
            <<N(<<7>>), W("Education"), W("References"), N(<<3>>), N(<<2>>), W("Agriculture")>>
      [] OTHER ->
            <<W("References"), W("-"), N(<<1>>), N(<<1>>), W("NGO"), W("About"),
              N(<<9>>), W("Education")>>

\* what session.get(profile_url) can produce: an exception, a 404, the page;
\* no request is made for an empty URL
Responses(url) ==
    IF url = "" THEN { Response(FALSE, 0, <<>>) }
    ELSE { Response(TRUE, 0, <<>>), Response(FALSE, 404, <<>>),
           Response(FALSE, HTTP_OK, ProfilePage(url)) }

ProfileUrls == {urljoin(a.href) : a \in {b \in Anchors : StartsWithSlash(b.href)}}

-----------------------------------------------------------------------------
(* scrape_partners *)

page_start == 1

MaxPages == 2

page_end == MaxPages

MaxAnchors == 3

base_cols ==
    <<COL_PARTNER_NAME, COL_TIER, COL_LOCATION, COL_REFERENCES, COL_CERTIFIED_EXPERTS,
      COL_PROFILE_URL, COL_CERTIFIED_VERSIONS, COL_REFERENCES_TOTAL, COL_CUSTOMER_RETENTION,
      COL_LARGEST_REFERENCE_USERS, COL_AVERAGE_REFERENCE_USERS, COL_REFERENCE_INDUSTRIES>>

expected_cols == base_cols \o ALLOWED_RI_COLS

InitScrape ==
    /\ pc = "fetch_page"
    /\ page_num = page_start
    /\ page_outcome = <<>>
    /\ all_rows = <<>>
    /\ profile_cache = <<>>
    /\ profile_calls = [u \in ProfileUrls |-> 0]
    /\ profile_resp = <<>>
    /\ anchors_seen = 0
    /\ df = <<>>

\* line 283 returns a response with status 200
FetchPageOk ==
    /\ pc = "fetch_page"
    /\ page_num <= page_end
    /\ page_outcome' = Put(page_outcome, page_num, "ok")
    /\ pc' = "anchors"
    /\ UNCHANGED <<sl, pp, px, page_num, all_rows, profile_cache, profile_calls, profile_resp, anchors_seen, df>>

\* lines 284-286: any other status, the page is skipped
FetchPageNon200 ==
    /\ pc = "fetch_page"
    /\ page_num <= page_end
    /\ page_outcome' = Put(page_outcome, page_num, "non200")
    /\ page_num' = page_num + 1
    /\ UNCHANGED <<sl, pp, px, pc, all_rows, profile_cache, profile_calls, profile_resp, anchors_seen, df>>

\* line 283 raises (timeout, connection error): nothing in scrape_partners
\* catches it, the exception leaves the function
FetchPageError ==
    /\ pc = "fetch_page"
    /\ page_num <= page_end
    /\ page_outcome' = Put(page_outcome, page_num, "error")
    /\ pc' = "raised"
    /\ UNCHANGED <<sl, pp, px, page_num, all_rows, profile_cache, profile_calls, profile_resp, anchors_seen, df>>

cache_miss_always(cache, profile_url) == TRUE

\* line 304
cache_miss(cache, profile_url) == profile_url \notin DOMAIN cache

merge_extras_profile_only(parsed, profile_url, cache) ==
    IF profile_url # "" THEN Update(parsed, cache[profile_url]) ELSE parsed

\* lines 303-311
merge_extras(parsed, profile_url, cache) ==
    IF profile_url # "" THEN Update(parsed, cache[profile_url])
    ELSE Update(parsed, init_ri_zero_dict)

\* lines 291-297: the anchor's text as a row draft, <<>> when it is skipped
candidate(t) ==
    IF t = <<>> \/ TIER_RE_search(t) = 0 THEN <<>> ELSE parse_partner_text(t)

\* lines 299-300
profile_url_of(href) == IF StartsWithSlash(href) THEN urljoin(href) ELSE ""

\* lines 305-313, got = what fetch_profile_extras returned when it was called
store_and_append(row, profile_url, fetch, got) ==
    IF fetch /\ raised_of(got)
    THEN pc' = "raised" /\ UNCHANGED <<all_rows, profile_cache>>
    ELSE /\ profile_cache' = IF fetch THEN Put(profile_cache, profile_url, extras_of(got))
                             ELSE profile_cache
         /\ all_rows' = Append(all_rows, merge_extras(row, profile_url, profile_cache'))
         /\ UNCHANGED pc

\* lines 303-307, fetch = the profile is requested
lookup(row, profile_url, resp, fetch) ==
    /\ profile_calls' = IF fetch THEN [profile_calls EXCEPT ![profile_url] = @ + 1]
                        ELSE profile_calls
    /\ profile_resp' = IF fetch
                       THEN Put(profile_resp, profile_url, <<exc_of(resp), status_code(resp)>>)
                       ELSE profile_resp
    /\ store_and_append(row, profile_url, fetch, fetch_profile_extras(profile_url, resp))

\* lines 295-313
append_parsed(parsed, profile_url, resp) ==
    IF parsed = <<>>
    THEN UNCHANGED <<pc, all_rows, profile_cache, profile_calls, profile_resp>>
    ELSE lookup(Put(parsed[1], COL_PROFILE_URL, profile_url), profile_url, resp,
                profile_url # "" /\ cache_miss(profile_cache, profile_url))

\* lines 290-313: one iteration of the loop over the page's anchors
ProcessAnchor(a, resp) ==
    /\ pc = "anchors"
    /\ anchors_seen < MaxAnchors
    /\ anchors_seen' = anchors_seen + 1
    /\ append_parsed(candidate(a.text), profile_url_of(a.href), resp)
    /\ UNCHANGED <<sl, pp, px, page_num, page_outcome, df>>

\* line 315, and the loop moves to the next page
EndPage ==
    /\ pc = "anchors"
    /\ page_num' = page_num + 1
    /\ pc' = "fetch_page"
    /\ UNCHANGED <<sl, pp, px, page_outcome, all_rows, profile_cache, profile_calls, profile_resp, anchors_seen, df>>

\* line 317
Return ==
    /\ pc = "fetch_page"
    /\ page_num > page_end
    /\ pc' = "returned"
    /\ UNCHANGED <<sl, pp, px, page_num, page_outcome, all_rows, profile_cache, profile_calls, profile_resp,
                   anchors_seen, df>>

-----------------------------------------------------------------------------
(* clean_and_export *)

\* lines 337-350: reindex to expected_cols, then the column coercions;
\* a column missing from the row is NaN after the reindex
coerce(row) ==
    [c \in Range(expected_cols) |->
        IF c = COL_PARTNER_NAME
            THEN IF c \in DOMAIN row THEN row[c] ELSE <<>>
        ELSE IF c \in {COL_REFERENCES, COL_CERTIFIED_EXPERTS}
            THEN IF c \in DOMAIN row THEN ToInt(row[c]) ELSE 0
        ELSE IF c \in Range(ALLOWED_RI_COLS)
            THEN IF c \in DOMAIN row THEN row[c] ELSE 0
        ELSE IF c \in DOMAIN row THEN row[c] ELSE <<>>]

\* lines 340-341
named(row) ==
    row[COL_PARTNER_NAME] # <<>> /\ LowerText(row[COL_PARTNER_NAME]) # FIND_BEST_MATCH

counted_or_zero(row) == row[COL_REFERENCES] >= 0 \/ row[COL_CERTIFIED_EXPERTS] >= 0

\* line 352
counted(row) == row[COL_REFERENCES] > 0 \/ row[COL_CERTIFIED_EXPERTS] > 0

key(row) == <<row[COL_PARTNER_NAME], row[COL_TIER], row[COL_LOCATION]>>

drop_duplicates_keep_last(rows) ==
    LET keep == {i \in 1..Len(rows) : \A j \in (i + 1)..Len(rows) : key(rows[j]) # key(rows[i])}
        idx  == Sorted(keep)
    IN  [k \in 1..Len(idx) |-> rows[idx[k]]]

\* line 353: drop_duplicates(subset=[name, tier, location]), keep="first"
drop_duplicates(rows) ==
    LET keep == {i \in 1..Len(rows) : \A j \in 1..(i - 1) : key(rows[j]) # key(rows[i])}
        idx  == Sorted(keep)
    IN  [k \in 1..Len(idx) |-> rows[idx[k]]]

\* lines 323-363
clean_and_export(rows) ==
    LET coerced == [i \in 1..Len(rows) |-> coerce(rows[i])]
        withName == SelectSeq(coerced, named)
        withCount == SelectSeq(withName, counted)
    IN  drop_duplicates(withCount)

\* lines 376-380
CleanAndExport ==
    /\ pc = "returned"
    /\ df' = clean_and_export(all_rows)
    /\ pc' = "exported"
    /\ UNCHANGED <<sl, pp, px, page_num, page_outcome, all_rows, profile_cache, profile_calls, profile_resp,
                   anchors_seen>>

-----------------------------------------------------------------------------
(* Inputs of the function-level runs *)

MaxZeros == 2

MaxBlock == 4

ZeroStrings == {[i \in 1..k |-> 0] : k \in 1..MaxZeros}

Counts == ZeroStrings \cup {<<5>>, <<1, 2>>, <<0, 5>>}

ParseNames == {<<>>, Acme, <<W("Find"), W("Best"), W("Match")>>}

ParseTiers == {<<>>, <<W("Gold")>>, <<W("Silver")>>, <<W("Ready")>>}

RefSegs ==
    {<<>>, <<N(<<1>>), W("Reference")>>} \cup {<<N(c), W("References")>> : c \in Counts}

ExpSegs == {<<>>} \cup {<<N(c), W("Certified"), W("Experts")>> : c \in Counts}

LocSegs ==
    { <<>>, LocSegment,
      <<W("%"), W("N/A"), W("Average"), W("Project:")>>,
      <<W("%"), W("Average"), W("Project:")>>,
      <<W("%"), W(","), W("Average"), W("Project:")>> }

ParseTexts ==
    {n \o t \o r \o e \o l : n \in ParseNames, t \in ParseTiers, r \in RefSegs,
                             e \in ExpSegs, l \in LocSegs}

PreSegs ==
    { <<>>, <<N(<<4>>), W("Certified"), NX("v", <<1, 9>>, "")>>, <<N(<<7>>), W("Education")>> }

AnchorSegs ==
    { <<>>, <<W("References"), W("-"), N(<<3>>)>>, <<W("References"), N(<<3>>)>> }

BlockLexemes == {N(<<2>>), N(<<1>>), W("Agriculture"), W("Education")}

Blocks == UNION {[1..n -> BlockLexemes] : n \in 0..MaxBlock}

PostSegs == { <<>>, SizesSegment, <<W("About"), N(<<9>>), W("Education")>> }

ProfileTexts ==
    {p \o a \o b \o q : p \in PreSegs, a \in AnchorSegs, b \in Blocks, q \in PostSegs}

ProfileResponses ==
    {Response(FALSE, HTTP_OK, t) : t \in ProfileTexts}
    \cup {Response(TRUE, 0, <<>>), Response(FALSE, 404, <<>>), Response(FALSE, 500, <<>>)}

-----------------------------------------------------------------------------
(* Function-level runs *)

SlIdle == [a |-> "", b |-> "", col_a |-> <<>>, col_b |-> <<>>, pc |-> "idle", re |-> <<>>]

PpIdle == [pc |-> "idle", result |-> <<>>, text |-> <<>>]

PxIdle == [out |-> <<>>, pc |-> "idle", resp |-> Response(FALSE, 0, <<>>), url |-> ""]

\* line 96, for two labels of the catalog
SlugifyLabels ==
    /\ sl.pc = "labels"
    /\ sl' = [sl EXCEPT !.pc = "cols",
                        !.col_a = make_safe_ri_column(Chars(sl.a)),
                        !.col_b = make_safe_ri_column(Chars(sl.b))]
    /\ UNCHANGED <<pp, px, scrape_vars>>

\* make_safe_ri_column applied to a column id
ReSlugify ==
    /\ sl.pc = "cols"
    /\ sl' = [sl EXCEPT !.pc = "reslug", !.re = make_safe_ri_column(sl.col_a)]
    /\ UNCHANGED <<pp, px, scrape_vars>>

ParseCall ==
    /\ pp.pc = "call"
    /\ pp' = [pp EXCEPT !.pc = "done", !.result = parse_partner_text(pp.text)]
    /\ UNCHANGED <<sl, px, scrape_vars>>

ExtractCall ==
    /\ px.pc = "call"
    /\ px' = [px EXCEPT !.pc = "done", !.out = fetch_profile_extras(px.url, px.resp)]
    /\ UNCHANGED <<sl, pp, scrape_vars>>

-----------------------------------------------------------------------------
(* Specifications *)

Init == InitScrape /\ sl = SlIdle /\ pp = PpIdle /\ px = PxIdle

Next ==
    \/ FetchPageOk
    \/ FetchPageNon200
    \/ FetchPageError
    \/ \E a \in Anchors : \E resp \in Responses(profile_url_of(a.href)) :
            ProcessAnchor(a, resp)
    \/ EndPage
    \/ Return
    \/ CleanAndExport

Spec == Init /\ [][Next]_vars

InitSlug ==
    /\ InitScrape /\ pp = PpIdle /\ px = PxIdle
    /\ sl \in {[SlIdle EXCEPT !.pc = "labels", !.a = x, !.b = y] :
                  x \in Range(ALLOWED_INDUSTRIES), y \in Range(ALLOWED_INDUSTRIES)}

NextSlug == SlugifyLabels \/ ReSlugify

SpecSlug == InitSlug /\ [][NextSlug]_vars

InitParse ==
    /\ InitScrape /\ sl = SlIdle /\ px = PxIdle
    /\ pp \in {[PpIdle EXCEPT !.pc = "call", !.text = t] : t \in ParseTexts}

NextParse == ParseCall

SpecParse == InitParse /\ [][NextParse]_vars

InitProfile ==
    /\ InitScrape /\ sl = SlIdle /\ pp = PpIdle
    /\ px \in {[PxIdle EXCEPT !.pc = "call", !.url = "https://www.odoo.com/partners/acme-1", !.resp = r] :
                  r \in ProfileResponses}

NextProfile == ExtractCall

SpecProfile == InitProfile /\ [][NextProfile]_vars

-----------------------------------------------------------------------------
(* Properties *)

BaseColSet == Range(base_cols)

RiColSet == Range(ALLOWED_RI_COLS)

RiKeys(row) == (DOMAIN row) \ BaseColSet

RiCol(label) == ALLOWED_LABEL_TO_RI_COL[label]

\* the request raised, or answered with a status other than 200
Failed(resp) == resp[1] \/ resp[2] # HTTP_OK

\* the all-defaults extras, field by field
AllDefaults(e) ==
    /\ e[COL_CERTIFIED_VERSIONS] = <<>>
    /\ e[COL_REFERENCES_TOTAL] = <<>>
    /\ e[COL_CUSTOMER_RETENTION] = <<>>
    /\ e[COL_LARGEST_REFERENCE_USERS] = <<>>
    /\ e[COL_AVERAGE_REFERENCE_USERS] = <<>>
    /\ e[COL_REFERENCE_INDUSTRIES] = <<>>
    /\ \A c \in RiColSet : e[c] = 0

RowsOf(u) == {i \in 1..Len(all_rows) : all_rows[i][COL_PROFILE_URL] = u}

\* C1: every row collected by scrape_partners and every row of the table
\* returned by clean_and_export carries exactly the 22 catalog industry
\* columns: no other industry key, none missing.
C1_IndustryColumnsExact ==
    /\ Cardinality(RiColSet) = 22
    /\ \A i \in 1..Len(all_rows) : RiKeys(all_rows[i]) = RiColSet
    /\ \A i \in 1..Len(df) : RiKeys(df[i]) = RiColSet

\* a run that met a row without profile link, a profile that was read with
\* industries in it and a profile whose fetch failed, and exported rows
C1_Witness ==
    /\ pc = "exported" /\ Len(df) >= 2
    /\ RowsOf("") # {}
    /\ \E u \in DOMAIN profile_resp :
          ~Failed(profile_resp[u]) /\ \E i \in RowsOf(u) : all_rows[i][RiCol("Real Estate")] = 1
    /\ \E u \in DOMAIN profile_resp : Failed(profile_resp[u]) /\ RowsOf(u) # {}

\* C2: a listing-page fetch that fails (transport error or non-200) is not
\* fatal: the run is not aborted by it.
C2_ListingFailureNotFatal ==
    (\E p \in DOMAIN page_outcome : page_outcome[p] # "ok") => pc # "raised"

\* C3: fetch_profile_extras is invoked at most once per distinct profile URL
\* in a run, failed fetches included, and every row with that URL carries
\* the cached extras.
C3_ProfileFetchedOnce ==
    /\ \A u \in DOMAIN profile_calls : profile_calls[u] <= 1
    /\ \A i \in 1..Len(all_rows) :
          LET u == all_rows[i][COL_PROFILE_URL]
          IN  u # "" =>
                /\ u \in DOMAIN profile_cache
                /\ profile_calls[u] = 1
                /\ \A c \in DOMAIN profile_cache[u] : all_rows[i][c] = profile_cache[u][c]

\* two rows share a URL whose only fetch failed
C3_Witness ==
    \E u \in DOMAIN profile_resp :
        /\ Failed(profile_resp[u])
        /\ profile_calls[u] = 1
        /\ Cardinality(RowsOf(u)) >= 2

\* C4: a failed profile fetch (non-200 or transport error) yields the
\* all-defaults extras, raises nothing, and the listing row is appended
\* with these defaults.
C4_ProfileFailureDefaults ==
    /\ \A u \in DOMAIN profile_resp :
          Failed(profile_resp[u]) =>
              /\ u \in DOMAIN profile_cache /\ AllDefaults(profile_cache[u])
              /\ RowsOf(u) # {}
              /\ \A i \in RowsOf(u) : AllDefaults(all_rows[i])
    /\ pc = "raised" => page_outcome[page_num] = "error"

\* rows were appended after a transport error and after a non-200 response
C4_Witness ==
    /\ \E u \in DOMAIN profile_resp : profile_resp[u][1] /\ RowsOf(u) # {}
    /\ \E u \in DOMAIN profile_resp :
          ~profile_resp[u][1] /\ profile_resp[u][2] # HTTP_OK /\ RowsOf(u) # {}

\* "References - 3 Agriculture 2 Education 1 Customer Retention 85%
\*  References Sizes Largest: ~50+ users Average: ~10+ users"
ExampleProfileText ==
    <<W("References"), W("-"), N(<<3>>), W("Agriculture"), N(<<2>>), W("Education"), N(<<1>>)>>
    \o SizesSegment

ExampleExtracted ==
    px.pc = "done" /\ ~Failed(px.resp) /\ text_of(px.resp) = ExampleProfileText

ExampleScalars(e) ==
    /\ e[COL_REFERENCES_TOTAL] = <<3>>
    /\ e[COL_CUSTOMER_RETENTION] = <<85>>
    /\ e[COL_LARGEST_REFERENCE_USERS] = <<50>>
    /\ e[COL_AVERAGE_REFERENCE_USERS] = <<10>>

\* C5 as claimed: the example text yields ReferencesTotal=3, Agriculture=2,
\* Education=1, every other industry 0, retention 85, largest 50, average 10.
C5_ExampleAsClaimed ==
    ExampleExtracted =>
        /\ ExampleScalars(extras_of(px.out))
        /\ \A lab \in Range(ALLOWED_INDUSTRIES) :
              extras_of(px.out)[RiCol(lab)] =
                  IF lab = "Agriculture" THEN 2 ELSE IF lab = "Education" THEN 1 ELSE 0

\* C5 amended: the example text yields ReferencesTotal=3, Education=2 (the
\* number before the label), every other industry 0 (Agriculture too),
\* retention 85, largest 50, average 10.
C5_ExampleNumberBeforeLabel ==
    ExampleExtracted =>
        /\ ExampleScalars(extras_of(px.out))
        /\ \A lab \in Range(ALLOWED_INDUSTRIES) :
              extras_of(px.out)[RiCol(lab)] = IF lab = "Education" THEN 2 ELSE 0
        /\ extras_of(px.out)[COL_REFERENCE_INDUSTRIES] = <<<<"Education", 2>>>>

C5_Witness == ExampleExtracted /\ ~raised_of(px.out)

\* C6: parse_partner_text returns None whenever the text has no location
\* segment and the extracted reference and expert counts are both 0,
\* however the zero is written.
C6_RejectsZeroCounts ==
    (/\ pp.pc = "done"
     /\ LOC_RE_search(pp.text) = <<>>
     /\ ToInt(REFS_RE_search(pp.text)) = 0
     /\ ToInt(EXPERTS_RE_search(pp.text)) = 0)
    => pp.result = <<>>

IndustryLooking(text) ==
    \E i \in 1..(Len(text) - 1) :
        NumberThenSpace(text[i]) /\ IsWord(text[i + 1], Range(ALLOWED_INDUSTRIES))

\* C7: without a "References - N" anchor in the profile text, References
\* Total is absent, all 22 industry counts are 0 and the Reference
\* Industries cell is empty, whatever "<digits> <label>" the text holds.
C7_NoAnchorNoIndustries ==
    (px.pc = "done" /\ ~Failed(px.resp) /\ m_total(text_of(px.resp)) = 0) =>
        /\ extras_of(px.out)[COL_REFERENCES_TOTAL] = <<>>
        /\ extras_of(px.out)[COL_REFERENCE_INDUSTRIES] = <<>>
        /\ \A c \in RiColSet : extras_of(px.out)[c] = 0

C7_Witness ==
    /\ px.pc = "done" /\ ~Failed(px.resp)
    /\ m_total(text_of(px.resp)) = 0
    /\ IndustryLooking(text_of(px.resp))

Keys(rows) == {key(rows[i]) : i \in 1..Len(rows)}

NoDuplicateKeys(rows) ==
    \A i, j \in 1..Len(rows) : key(rows[i]) = key(rows[j]) => i = j

FirstWithKey(rows, k) == rows[Min({i \in 1..Len(rows) : key(rows[i]) = k})]

\* the rows that pass the name filter and the count filter
Survivors == SelectSeq([i \in 1..Len(all_rows) |-> coerce(all_rows[i])],
                       LAMBDA r : named(r) /\ (r[COL_REFERENCES] > 0 \/ r[COL_CERTIFIED_EXPERTS] > 0))

\* C8 as claimed: no two rows of the table share (Partner Name, Tier,
\* Location), and the row retained for a key is the first row with that key
\* in input order.
C8_FirstInInputRetained ==
    pc = "exported" =>
        /\ NoDuplicateKeys(df)
        /\ \A i \in 1..Len(df) :
              df[i] = coerce(FirstWithKey(all_rows, key(df[i])))

\* C8 amended: no two rows of the table share the key, and the row retained
\* for a key is the first row with that key among the rows that pass the
\* name and count filters.
C8_FirstSurvivorRetained ==
    pc = "exported" =>
        /\ NoDuplicateKeys(df)
        /\ Keys(df) = Keys(Survivors)
        /\ \A i \in 1..Len(df) : df[i] = FirstWithKey(Survivors, key(df[i]))

\* two surviving drafts with one key and different profile URLs left one row
C8_Witness ==
    /\ pc = "exported" /\ Len(df) = 1
    /\ \E i, j \in 1..Len(Survivors) :
          /\ i < j
          /\ key(Survivors[i]) = key(Survivors[j])
          /\ Survivors[i][COL_PROFILE_URL] # Survivors[j][COL_PROFILE_URL]
          /\ df[1][COL_PROFILE_URL] = Survivors[i][COL_PROFILE_URL]

ZeroCounts(row) == ToInt(row[COL_REFERENCES]) = 0 /\ ToInt(row[COL_CERTIFIED_EXPERTS]) = 0

\* C9: every row of the table has References > 0 or Certified Experts > 0
\* after coercion; a record with both counts 0 is dropped.
C9_RetainedRowsCounted ==
    pc = "exported" =>
        /\ \A i \in 1..Len(df) : df[i][COL_REFERENCES] > 0 \/ df[i][COL_CERTIFIED_EXPERTS] > 0
        /\ Len(df) <= Cardinality({i \in 1..Len(all_rows) : ~ZeroCounts(all_rows[i])})

\* a draft with both counts 0 and its other fields populated was dropped
C9_Witness ==
    /\ pc = "exported" /\ Len(df) >= 1
    /\ \E i \in 1..Len(all_rows) :
          /\ ZeroCounts(all_rows[i])
          /\ all_rows[i][COL_LOCATION] # NA
          /\ all_rows[i][COL_PROFILE_URL] # ""
          /\ key(all_rows[i]) \notin Keys(df)

DistinctLabels == sl.a # sl.b

\* C10 as claimed: the 22 labels get pairwise distinct column ids, and
\* make_safe_ri_column applied to a column id returns that column id.
C10_UniqueAndIdempotent ==
    /\ (sl.pc \in {"cols", "reslug"} /\ DistinctLabels) => sl.col_a # sl.col_b
    /\ sl.pc = "reslug" => sl.re = sl.col_a

\* C10 amended: the 22 labels get pairwise distinct column ids, and
\* make_safe_ri_column applied to a column id returns "RI_" followed by
\* that column id (the prefix is prepended again).
C10_UniqueAndPrefixedAgain ==
    /\ (sl.pc \in {"cols", "reslug"} /\ DistinctLabels) => sl.col_a # sl.col_b
    /\ sl.pc = "reslug" => sl.re = RiPrefix \o sl.col_a

C10_Witness == sl.pc = "reslug" /\ DistinctLabels /\ Len(sl.col_a) > Len(RiPrefix)

====
